---- MODULE Spec2Model ----
(***************************************************************************)
(* Leaflet.SmoothWheelZoom (src/SmoothWheelZoom.js): the wheel handler     *)
(* L.Map.SmoothWheelZoom together with the part of the host map and of the *)
(* browser it acts on (the view's zoom and center, the animation-frame     *)
(* callback list, the timer list).                                         *)
(*                                                                         *)
(* Units.  A zoom level is an integer number of thousandths (zoom 2.03 is  *)
(* 2030), so that one wheel notch (0.003 * sensitivity) is 3.  A container *)
(* point is a pair of integer pixels.  A geographic point (LatLng) is a    *)
(* pair of integer world units, finer than one pixel at every zoom of the  *)
(* model.                                                                  *)
(***************************************************************************)
EXTENDS Integers, Sequences, FiniteSets

VARIABLES
    enabled,              \* L.Handler._enabled: the wheel listener is attached
    smoothWheelZoom,      \* map.options.smoothWheelZoom: "cursor" (true) or "center"
    isWheeling,           \* this._isWheeling
    wheelMousePosition,   \* this._wheelMousePosition
    centerPoint,          \* this._centerPoint
    startLatLng,          \* this._startLatLng
    wheelStartLatLng,     \* this._wheelStartLatLng
    startZoom,            \* this._startZoom
    moved,                \* this._moved
    goalZoom,             \* this._goalZoom
    prevCenter,           \* this._prevCenter
    prevZoom,             \* this._prevZoom
    zoomAnimationId,      \* this._zoomAnimationId
    timeoutId,            \* this._timeoutId
    rafQueue,             \* browser: frame callbacks requested for the next frame
    rafBatch,             \* browser: callbacks of the running frame not yet run
    timers,               \* browser: pending timeouts (their ids)
    mapZoom,              \* map.getZoom()
    mapCenter,            \* map.getCenter()
    moveStarts,           \* host: 'movestart' fired by the handler since the last 'moveend'
    gestures,             \* wheel gestures begun so far
    lastCommit,           \* history: the view as the Driver last left it
    regestured,           \* history: a gesture began on a view another agent had changed
    deltaSum,             \* history: sum of the wheel deltas of the current gesture
    leftRange             \* history: a partial sum left [minZoom, maxZoom]

handlerVars == <<enabled, smoothWheelZoom, isWheeling, wheelMousePosition, centerPoint,
                 startLatLng, wheelStartLatLng, startZoom, moved, goalZoom,
                 prevCenter, prevZoom, zoomAnimationId, timeoutId>>
hostVars == <<rafQueue, rafBatch, timers, mapZoom, mapCenter, moveStarts, gestures>>
historyVars == <<lastCommit, regestured, deltaSum, leftRange>>
vars == <<handlerVars, hostVars, historyVars>>

(***************************************************************************)
(* Bounds of the model.                                                    *)
(***************************************************************************)
MinZoomCenti == 199       \* map.getMinZoom(), in hundredths
MaxZoomCenti == 203       \* map.getMaxZoom(), in hundredths
MaxDelta == 20            \* largest normalized wheel delta of one event
MaxGestures == 2          \* wheel gestures of one run
MaxMoveStarts == 2        \* 'movestart' events counted (2 = two or more)

MinZoom == MinZoomCenti * 10
MaxZoom == MaxZoomCenti * 10
NumHandles == MaxGestures   \* frame handles before the browser's counter wraps

(***************************************************************************)
(* Program constants.                                                      *)
(***************************************************************************)
smoothSensitivity == 1
Undefined == 0 - 1
NoPoint == <<Undefined, Undefined>>

(***************************************************************************)
(* The host view: size, wheel events and the values other agents set.      *)
(***************************************************************************)
MapSize == <<8, 8>>
WheelDeltas == {0 - MaxDelta, 0 - 10, 10, MaxDelta}
CursorPositions == {<<4, 4>>, <<6, 4>>}
InitZoom == MinZoom + 10
InitCenter == <<1000, 1000>>
ExternalViews == {[zoom |-> InitZoom + 23, center |-> InitCenter],
                  [zoom |-> InitZoom, center |-> <<1010, 1000>>]}

Abs(n) == IF n < 0 THEN 0 - n ELSE n
Subtract(p, q) == <<p[1] - q[1], p[2] - q[2]>>
Add(p, q) == <<p[1] + q[1], p[2] + q[2]>>
DivideBy(p, n) == <<p[1] \div n, p[2] \div n>>

Min(a, b) == IF a < b THEN a ELSE b
Max(a, b) == IF a > b THEN a ELSE b
Range(seq) == {seq[i] : i \in 1..Len(seq)}
Without(seq, x) == SelectSeq(seq, LAMBDA y : y # x)

(***************************************************************************)
(* The host map (Leaflet), as far as the handler uses it.                  *)
(*                                                                         *)
(* Scale(z) is the number of pixels per WorldUnit world units at zoom z:   *)
(* 2^z, interpolated linearly between whole zoom levels.  Project is exact *)
(* to the pixel and Unproject returns the first world point of the pixel,  *)
(* so that Project(Unproject(p, z), z) = p as in the host's floating point.*)
(***************************************************************************)
WorldUnit == 8 * 1024

RECURSIVE Pow2(_)
Pow2(n) == IF n = 0 THEN 1 ELSE 2 * Pow2(n - 1)

Scale(z) == Pow2(z \div 1000) * (1000 + (z % 1000))

Project(latlng, z) ==
    <<(latlng[1] * Scale(z)) \div WorldUnit, (latlng[2] * Scale(z)) \div WorldUnit>>

Unproject(p, z) ==
    <<(p[1] * WorldUnit + Scale(z) - 1) \div Scale(z),
      (p[2] * WorldUnit + Scale(z) - 1) \div Scale(z)>>

\* map.getSize().divideBy(2)
ViewHalf == DivideBy(MapSize, 2)

\* The pixel, at the view's zoom, of the view's top-left corner.
TopLeft(s) == Subtract(Project(s.mapCenter, s.mapZoom), ViewHalf)

\* map.containerPointToLatLng(p)
ContainerPointToLatLng(s, p) == Unproject(Add(TopLeft(s), p), s.mapZoom)

\* map.latLngToContainerPoint(latlng)
LatLngToContainerPoint(s, latlng) == Subtract(Project(latlng, s.mapZoom), TopLeft(s))

\* map._limitZoom(zoom) with zoomSnap 0 (the setting the handler recommends)
LimitZoom(zoom) == Max(MinZoom, Min(MaxZoom, zoom))

\* map.stop(): brings the zoom inside the limits and halts the host's own animation
MapStop(s) == [s EXCEPT !.mapZoom = LimitZoom(s.mapZoom)]

\* map._moveStart(true, false): fires 'movestart'
MapMoveStart(s) == [s EXCEPT !.moveStarts = Min(s.moveStarts + 1, MaxMoveStarts)]

\* map._moveEnd(true): fires 'moveend'
MapMoveEnd(s) == [s EXCEPT !.moveStarts = 0]

\* map._move(center, zoom): the view takes both at once
MapMove(s, center, zoom) == [s EXCEPT !.mapCenter = center, !.mapZoom = zoom]

(***************************************************************************)
(* The browser: animation-frame callbacks and timers.  A handle is fresh:  *)
(* the next one after the last handle issued that no pending callback      *)
(* holds.  The handler is the only requester, so the last handle issued is *)
(* this._zoomAnimationId.                                                  *)
(***************************************************************************)
PendingFrames(s) == Range(s.rafQueue) \cup Range(s.rafBatch)

NextHandle(last, used) ==
    LET k == CHOOSE k \in 1..(NumHandles + 1) :
                 /\ ((last + k) % NumHandles) \notin used
                 /\ \A j \in 1..(k - 1) : ((last + j) % NumHandles) \in used
    IN  (last + k) % NumHandles

\* this._zoomAnimationId = requestAnimationFrame(this._updateWheelZoom.bind(this))
RequestAnimationFrame(s) ==
    LET id == NextHandle(s.zoomAnimationId, PendingFrames(s))
    IN  [s EXCEPT !.zoomAnimationId = id, !.rafQueue = Append(s.rafQueue, id)]

\* cancelAnimationFrame(this._zoomAnimationId)
CancelAnimationFrame(s) ==
    [s EXCEPT !.rafQueue = Without(s.rafQueue, s.zoomAnimationId),
              !.rafBatch = Without(s.rafBatch, s.zoomAnimationId)]

\* clearTimeout(this._timeoutId)
ClearTimeout(s) == [s EXCEPT !.timers = s.timers \ {s.timeoutId}]

\* this._timeoutId = setTimeout(this._onWheelEnd.bind(this), 200)
SetTimeout(s) ==
    LET id == CHOOSE i \in 0..Cardinality(s.timers) :
                  i \notin s.timers /\ \A j \in 0..(i - 1) : j \in s.timers
    IN  [s EXCEPT !.timeoutId = id, !.timers = s.timers \cup {id}]

(***************************************************************************)
(* The handler.  Each method is a function of the whole state s (the       *)
(* handler's fields, the view, the browser's callback and timer lists) and *)
(* of the wheel event e = [delta |-> normalized wheel delta, pos |->       *)
(* container point of the cursor].                                         *)
(***************************************************************************)
World ==
    [enabled |-> enabled, smoothWheelZoom |-> smoothWheelZoom, isWheeling |-> isWheeling,
     wheelMousePosition |-> wheelMousePosition, centerPoint |-> centerPoint,
     startLatLng |-> startLatLng, wheelStartLatLng |-> wheelStartLatLng,
     startZoom |-> startZoom, moved |-> moved, goalZoom |-> goalZoom,
     prevCenter |-> prevCenter, prevZoom |-> prevZoom,
     zoomAnimationId |-> zoomAnimationId, timeoutId |-> timeoutId,
     rafQueue |-> rafQueue, rafBatch |-> rafBatch, timers |-> timers,
     mapZoom |-> mapZoom, mapCenter |-> mapCenter, moveStarts |-> moveStarts,
     gestures |-> gestures]

\* The step to state s (s is evaluated once).
Becomes(s) ==
    \E next \in {s} :
        /\ enabled' = next.enabled
        /\ smoothWheelZoom' = next.smoothWheelZoom
        /\ isWheeling' = next.isWheeling
        /\ wheelMousePosition' = next.wheelMousePosition
        /\ centerPoint' = next.centerPoint
        /\ startLatLng' = next.startLatLng
        /\ wheelStartLatLng' = next.wheelStartLatLng
        /\ startZoom' = next.startZoom
        /\ moved' = next.moved
        /\ goalZoom' = next.goalZoom
        /\ prevCenter' = next.prevCenter
        /\ prevZoom' = next.prevZoom
        /\ zoomAnimationId' = next.zoomAnimationId
        /\ timeoutId' = next.timeoutId
        /\ rafQueue' = next.rafQueue
        /\ rafBatch' = next.rafBatch
        /\ timers' = next.timers
        /\ mapZoom' = next.mapZoom
        /\ mapCenter' = next.mapCenter
        /\ moveStarts' = next.moveStarts
        /\ gestures' = next.gestures

\* addHooks, through L.Handler.enable
AddHooks(s) == [s EXCEPT !.enabled = TRUE]

\* removeHooks, through L.Handler.disable: the listener is detached, nothing else
RemoveHooks(s) == [s EXCEPT !.enabled = FALSE]

OnWheelStart(s, e) ==
    LET s1 == [s EXCEPT !.isWheeling = TRUE,
                        !.wheelMousePosition = e.pos,
                        !.centerPoint = ViewHalf,
                        !.startLatLng = ContainerPointToLatLng(s, ViewHalf),
                        !.wheelStartLatLng = ContainerPointToLatLng(s, e.pos),
                        !.startZoom = s.mapZoom,
                        !.moved = FALSE]
        s2 == MapStop(s1)
        s3 == [s2 EXCEPT !.goalZoom = s2.mapZoom,
                         !.prevCenter = s2.mapCenter,
                         !.prevZoom = s2.mapZoom]
    IN  RequestAnimationFrame(s3)

\* Mutant of OnWheeling: the goal is limited only when below the minimum.
OnWheeling_NoUpperClamp(s, e) ==
    LET goal == s.goalZoom + e.delta * 3 * smoothSensitivity
        s1 == [s EXCEPT !.goalZoom = IF goal < MinZoom THEN LimitZoom(goal) ELSE goal,
                        !.wheelMousePosition = e.pos]
    IN  SetTimeout(ClearTimeout(s1))

\* Mutant of OnWheeling: the goal is limited only when above the maximum.
OnWheeling_NoLowerClamp(s, e) ==
    LET goal == s.goalZoom + e.delta * 3 * smoothSensitivity
        s1 == [s EXCEPT !.goalZoom = IF goal > MaxZoom THEN LimitZoom(goal) ELSE goal,
                        !.wheelMousePosition = e.pos]
    IN  SetTimeout(ClearTimeout(s1))

\* Mutant of OnWheeling: the delta is added to the start zoom, not to the goal.
OnWheeling_FromStart(s, e) ==
    LET goal == s.startZoom + e.delta * 3 * smoothSensitivity
        s1 == [s EXCEPT !.goalZoom = IF goal < MinZoom \/ goal > MaxZoom
                                     THEN LimitZoom(goal) ELSE goal,
                        !.wheelMousePosition = e.pos]
    IN  SetTimeout(ClearTimeout(s1))

\* Mutant of OnWheeling: the previous timer is not cleared before the new one.
OnWheeling_NoClearTimeout(s, e) ==
    LET goal == s.goalZoom + e.delta * 3 * smoothSensitivity
        s1 == [s EXCEPT !.goalZoom = IF goal < MinZoom \/ goal > MaxZoom
                                     THEN LimitZoom(goal) ELSE goal,
                        !.wheelMousePosition = e.pos]
    IN  SetTimeout(s1)

OnWheeling(s, e) ==
    LET goal == s.goalZoom + e.delta * 3 * smoothSensitivity
        s1 == [s EXCEPT !.goalZoom = IF goal < MinZoom \/ goal > MaxZoom
                                     THEN LimitZoom(goal) ELSE goal,
                        !.wheelMousePosition = e.pos]
    IN  SetTimeout(ClearTimeout(s1))

OnWheelScroll(s, e) ==
    OnWheeling(IF ~s.isWheeling THEN OnWheelStart(s, e) ELSE s, e)

\* Mutant of OnWheelEnd: the end of the gesture also forgets the open transaction.
OnWheelEnd_ClearsMoved(s) == [s EXCEPT !.isWheeling = FALSE, !.moved = FALSE]

OnWheelEnd(s) == [s EXCEPT !.isWheeling = FALSE]

\* map.getZoom() + zoomDiff * 0.3, then Math.floor(zoom * 100) / 100
EaseZoom(zoom, goal) ==
    LET zoomDiff == goal - zoom
        tenThousandths == zoom * 10 + zoomDiff * 3
    IN  (tenThousandths \div 100) * 10

\* The branches of _updateWheelZoom
\* Mutant of Interfered: only the zoom is compared with its snapshot.
Interfered_ZoomOnly(s) == s.mapZoom # s.prevZoom

Interfered(s) == s.mapCenter # s.prevCenter \/ s.mapZoom # s.prevZoom
Converged(s) == Abs(s.goalZoom - s.mapZoom) < 5 /\ ~s.isWheeling
ZeroOffset(s) == Subtract(s.wheelMousePosition, s.centerPoint) = <<0, 0>>

\* Mutant of NewCenter: the mode is ignored, the cursor transform always used.
NewCenter_IgnoresMode(s, zoom) ==
    LET delta == Subtract(s.wheelMousePosition, s.centerPoint)
    IN  Unproject(Subtract(Project(s.wheelStartLatLng, zoom), delta), zoom)

\* Mutant of NewCenter: the cursor's pixel offset is not subtracted.
NewCenter_NoOffset(s, zoom) ==
    IF s.smoothWheelZoom = "center"
    THEN s.startLatLng
    ELSE Unproject(Project(s.wheelStartLatLng, zoom), zoom)

NewCenter(s, zoom) ==
    LET delta == Subtract(s.wheelMousePosition, s.centerPoint)
    IN  IF s.smoothWheelZoom = "center"
        THEN s.startLatLng
        ELSE Unproject(Subtract(Project(s.wheelStartLatLng, zoom), delta), zoom)

\* Mutant of UpdateWheelZoom: a tick that commits does not request the next frame.
UpdateWheelZoom_NoReschedule(s) ==
    IF Interfered(s) THEN CancelAnimationFrame(s)
    ELSE IF Converged(s)
    THEN LET s1 == CancelAnimationFrame(s)
         IN  IF s1.moved THEN [MapMoveEnd(s1) EXCEPT !.moved = FALSE] ELSE s1
    ELSE IF ZeroOffset(s) THEN RequestAnimationFrame(s)
    ELSE LET zoom == EaseZoom(s.mapZoom, s.goalZoom)
             center == NewCenter(s, zoom)
             s1 == IF ~s.moved THEN [MapMoveStart(s) EXCEPT !.moved = TRUE] ELSE s
             s2 == MapMove(s1, center, zoom)
         IN  [s2 EXCEPT !.prevCenter = s2.mapCenter, !.prevZoom = s2.mapZoom]

\* Mutant of UpdateWheelZoom: the commit is not copied into the snapshots.
UpdateWheelZoom_NoSnapshot(s) ==
    IF Interfered(s) THEN CancelAnimationFrame(s)
    ELSE IF Converged(s)
    THEN LET s1 == CancelAnimationFrame(s)
         IN  IF s1.moved THEN [MapMoveEnd(s1) EXCEPT !.moved = FALSE] ELSE s1
    ELSE IF ZeroOffset(s) THEN RequestAnimationFrame(s)
    ELSE LET zoom == EaseZoom(s.mapZoom, s.goalZoom)
             center == NewCenter(s, zoom)
             s1 == IF ~s.moved THEN [MapMoveStart(s) EXCEPT !.moved = TRUE] ELSE s
             s2 == MapMove(s1, center, zoom)
         IN  RequestAnimationFrame(s2)

UpdateWheelZoom(s) ==
    IF Interfered(s) THEN CancelAnimationFrame(s)
    ELSE IF Converged(s)
    THEN LET s1 == CancelAnimationFrame(s)
         IN  IF s1.moved THEN [MapMoveEnd(s1) EXCEPT !.moved = FALSE] ELSE s1
    ELSE IF ZeroOffset(s) THEN RequestAnimationFrame(s)
    ELSE LET zoom == EaseZoom(s.mapZoom, s.goalZoom)
             center == NewCenter(s, zoom)
             s1 == IF ~s.moved THEN [MapMoveStart(s) EXCEPT !.moved = TRUE] ELSE s
             s2 == MapMove(s1, center, zoom)
             s3 == [s2 EXCEPT !.prevCenter = s2.mapCenter, !.prevZoom = s2.mapZoom]
         IN  RequestAnimationFrame(s3)

(***************************************************************************)
(* The state after construction: the map exists, the handler is enabled    *)
(* (smoothWheelZoom is true or 'center'), no wheel event was seen.         *)
(***************************************************************************)
Init ==
    /\ enabled = TRUE
    /\ smoothWheelZoom \in {"cursor", "center"}
    /\ isWheeling = FALSE
    /\ wheelMousePosition = NoPoint
    /\ centerPoint = NoPoint
    /\ startLatLng = NoPoint
    /\ wheelStartLatLng = NoPoint
    /\ startZoom = Undefined
    /\ moved = FALSE
    /\ goalZoom = Undefined
    /\ prevCenter = NoPoint
    /\ prevZoom = Undefined
    /\ zoomAnimationId = Undefined
    /\ timeoutId = Undefined
    /\ rafQueue = <<>>
    /\ rafBatch = <<>>
    /\ timers = {}
    /\ mapZoom = InitZoom
    /\ mapCenter = InitCenter
    /\ moveStarts = 0
    /\ gestures = 0
    /\ lastCommit = [zoom |-> InitZoom, center |-> InitCenter]
    /\ regestured = FALSE
    /\ deltaSum = 0
    /\ leftRange = FALSE

(***************************************************************************)
(* Steps.  The callbacks of one frame run back to back: nothing else       *)
(* happens while rafBatch holds a callback.                                *)
(*                                                                         *)
(* The history variables are no fields of the program.  lastCommit is the  *)
(* view as the Driver last left it: its last commit or, for a gesture begun*)
(* with no loop running, the view at the gesture's start.  regestured      *)
(* tells that, since then, a gesture began while a loop was running on a   *)
(* view that differed from lastCommit.  deltaSum is the sum of the         *)
(* normalized deltas of the wheel events of the gesture in progress, kept  *)
(* as long as no partial sum took the start zoom out of [minZoom, maxZoom];*)
(* leftRange tells that one did.  Both are reset when the gesture ends.    *)
(***************************************************************************)
View == [zoom |-> mapZoom, center |-> mapCenter]
LoopStopped == rafQueue = <<>> /\ rafBatch = <<>>

\* A tick that passes the interference and the convergence check with the
\* cursor off the view center: it commits.
TickCommits ==
    /\ mapZoom = prevZoom /\ mapCenter = prevCenter
    /\ ~(Abs(goalZoom - mapZoom) < 5 /\ ~isWheeling)
    /\ wheelMousePosition # centerPoint

\* A wheel event on the container, delivered to the attached listener.
WheelScroll ==
    /\ enabled
    /\ rafBatch = <<>>
    /\ isWheeling \/ gestures < MaxGestures
    /\ \E delta \in WheelDeltas, pos \in CursorPositions :
       \E s \in {[World EXCEPT !.gestures = IF isWheeling THEN gestures ELSE gestures + 1]} :
           /\ Becomes(OnWheelScroll(s, [delta |-> delta, pos |-> pos]))
           /\ LET sum == (IF isWheeling THEN deltaSum ELSE 0) + delta
                  left == \/ isWheeling /\ leftRange
                          \/ startZoom' + 3 * smoothSensitivity * sum < MinZoom
                          \/ startZoom' + 3 * smoothSensitivity * sum > MaxZoom
              IN  /\ leftRange' = left
                  /\ deltaSum' = IF left THEN 0 ELSE sum
    /\ lastCommit' = IF ~isWheeling /\ LoopStopped THEN View' ELSE lastCommit
    /\ regestured' = IF isWheeling THEN regestured
                     ELSE ~LoopStopped /\ (regestured \/ View # lastCommit)

\* The debounce timer fires 200 ms after the wheel event that armed it.
WheelEnd ==
    /\ rafBatch = <<>>
    /\ \E t \in timers :
           Becomes(OnWheelEnd([World EXCEPT !.timers = timers \ {t}]))
    /\ deltaSum' = 0
    /\ leftRange' = FALSE
    /\ UNCHANGED <<lastCommit, regestured>>

\* The browser runs the next frame callback: the first of the running frame,
\* or of a new frame made of every callback requested so far.
AnimationFrame ==
    LET batch == IF rafBatch = <<>> THEN rafQueue ELSE rafBatch
        queue == IF rafBatch = <<>> THEN <<>> ELSE rafQueue
    IN  /\ batch # <<>>
        /\ \E s \in {[World EXCEPT !.rafBatch = Tail(batch), !.rafQueue = queue]} :
               Becomes(UpdateWheelZoom(s))
        /\ lastCommit' = IF TickCommits THEN View' ELSE lastCommit
        /\ regestured' = IF TickCommits THEN FALSE ELSE regestured
        /\ UNCHANGED <<deltaSum, leftRange>>

\* Another agent (another handler, a programmatic setView) changes the view.
ExternalSetView ==
    /\ rafBatch = <<>>
    /\ \E view \in ExternalViews :
           /\ <<view.zoom, view.center>> # <<mapZoom, mapCenter>>
           /\ Becomes(MapMove(World, view.center, view.zoom))
    /\ UNCHANGED historyVars

Enable ==
    /\ rafBatch = <<>>
    /\ ~enabled
    /\ Becomes(AddHooks(World))
    /\ UNCHANGED historyVars

Disable ==
    /\ rafBatch = <<>>
    /\ enabled
    /\ Becomes(RemoveHooks(World))
    /\ UNCHANGED historyVars

Next ==
    \/ WheelScroll
    \/ WheelEnd
    \/ AnimationFrame
    \/ ExternalSetView
    \/ Enable
    \/ Disable

Spec == Init /\ [][Next]_vars

\* Frames keep coming and a pending timer fires.
FairSpec == Spec /\ WF_vars(AnimationFrame) /\ WF_vars(WheelEnd)

\* The handler alone: no other agent changes the view.
NextAlone ==
    \/ WheelScroll
    \/ WheelEnd
    \/ AnimationFrame
    \/ Enable
    \/ Disable

AloneSpec == Init /\ [][NextAlone]_vars /\ WF_vars(AnimationFrame) /\ WF_vars(WheelEnd)

(***************************************************************************)
(* Claims.                                                                 *)
(***************************************************************************)
LoopCount == Len(rafQueue) + Len(rafBatch)
CursorOffCenter == wheelMousePosition # centerPoint
NearGoal == Abs(goalZoom - mapZoom) < 5

\* A step that leaves the view and the handler's move transaction alone.
NoCommit ==
    /\ mapZoom' = mapZoom /\ mapCenter' = mapCenter
    /\ moved' = moved /\ moveStarts' = moveStarts

Within1(p, q) == Abs(p[1] - q[1]) <= 1 /\ Abs(p[2] - q[2]) <= 1

\* The container-pixel offset from the view center of the point captured
\* under the cursor at gesture start: now, and when the gesture started.
AnchorOffset == Subtract(LatLngToContainerPoint(World, wheelStartLatLng), centerPoint)
StartOffset ==
    Subtract(Project(wheelStartLatLng, startZoom), Project(startLatLng, startZoom))
CursorOffset == Subtract(wheelMousePosition, centerPoint)

\* C1 (convergence): with no other agent changing the view, once the wheel
\* events have stopped (isWheeling stays false: every wheel event sets it)
\* with the cursor off the view center, from some frame on the loop is
\* stopped and the view zoom is within 0.005 of goalZoom.
C1_Convergence ==
    <>[](~isWheeling /\ CursorOffCenter) => <>[](LoopStopped /\ NearGoal)

\* C2 (single loop): at most one frame callback of _updateWheelZoom is
\* pending at any time.
C2_SingleLoop == LoopCount <= 1

\* C3 (disable releases): while the handler is disabled no debounce timer
\* and no frame callback is pending.
C3_DisableReleases == ~enabled => (timers = {} /\ LoopStopped)

\* C4 as claimed (interference abort): a tick that finds the view different
\* from what the Driver last left stops the loop and commits nothing,
\* whatever wheel events arrived since the change.
C4_InterferenceAbort ==
    [][(View # lastCommit /\ AnimationFrame) => (NoCommit /\ LoopCount' < LoopCount)]_vars

\* C4 as amended: the same, provided no wheel event began a new gesture
\* between the change and the tick.
C4_InterferenceAbortSameGesture ==
    [][(View # lastCommit /\ ~regestured /\ AnimationFrame)
           => (NoCommit /\ LoopCount' < LoopCount)]_vars

\* C4 witness: another agent changed the view during a gesture that had
\* committed, and the loop was stopped by the next tick, mid-gesture.
C4_Witness ==
    isWheeling /\ moved /\ LoopStopped /\ View # lastCommit /\ ~regestured

\* C5 (clamping): after every wheel event goalZoom lies within
\* [minZoom, maxZoom].
C5_Clamping == goalZoom # Undefined => (MinZoom <= goalZoom /\ goalZoom <= MaxZoom)

\* C5 witness: a gesture begun at a zoom from which no sum of the small
\* deltas meets minZoom has its goal at minZoom: a delta drove it past the
\* bound and it was clamped.
C5_Witness ==
    isWheeling /\ goalZoom = MinZoom /\ (startZoom - MinZoom) % 30 # 0

\* C6 (loop after every wheel event): immediately after any wheel event a
\* frame callback is pending.
C6_LoopAfterWheel == [][WheelScroll => ~LoopStopped']_vars

\* C7 (center invariance): in 'center' mode every commit leaves the view
\* center at the point captured under the view center at gesture start.
C7_CenterInvariance ==
    [][(smoothWheelZoom = "center" /\ TickCommits /\ AnimationFrame)
           => mapCenter' = startLatLng]_vars

\* C7 witness: a commit in 'center' mode changed the zoom with the cursor off
\* center.
C7_Witness ==
    /\ smoothWheelZoom = "center" /\ moved /\ View = lastCommit
    /\ mapZoom # startZoom /\ CursorOffCenter /\ mapCenter = startLatLng

\* C8 as claimed (anchor invariance): after every commit in cursor mode the
\* point captured under the cursor at gesture start lies within 1 pixel of
\* its start-of-gesture offset from the view center.
C8_AnchorInvariance ==
    [][(smoothWheelZoom = "cursor" /\ TickCommits /\ AnimationFrame)
           => Within1(AnchorOffset', StartOffset')]_vars

\* C8 as amended: after every commit in cursor mode that point lies within
\* 1 pixel of the offset of the latest reported cursor position.
C8_AnchorUnderCursor ==
    [][(smoothWheelZoom = "cursor" /\ TickCommits /\ AnimationFrame)
           => Within1(AnchorOffset', CursorOffset')]_vars

\* C8 witness: a commit changed the zoom after a wheel event of the gesture
\* had reported another cursor position, and the point is under the cursor.
C8_Witness ==
    /\ smoothWheelZoom = "cursor" /\ moved /\ View = lastCommit
    /\ mapZoom # startZoom /\ ~Within1(CursorOffset, StartOffset)
    /\ Within1(AnchorOffset, CursorOffset)

\* C9 (zero-offset no-op): a tick with the cursor exactly on the view center
\* that passes the interference and convergence checks leaves the view and
\* the transaction alone and reschedules itself; and once the cursor has
\* moved off center, or the zoom is within 0.005 of the goal, after the
\* gesture's end, the loop stops.
C9_ZeroOffsetFrame ==
    [][(/\ mapZoom = prevZoom /\ mapCenter = prevCenter
        /\ ~(NearGoal /\ ~isWheeling) /\ ~CursorOffCenter
        /\ AnimationFrame)
           => (NoCommit /\ LoopCount' = LoopCount)]_vars

C9_ZeroOffsetNoOp ==
    /\ C9_ZeroOffsetFrame
    /\ (/\ <>(isWheeling /\ ~CursorOffCenter /\ ~NearGoal /\ ~LoopStopped)
        /\ <>[](~isWheeling /\ (CursorOffCenter \/ NearGoal)))
           => <>[]LoopStopped

\* C10 (disable resets): while the handler is disabled it is idle: not
\* wheeling, no open move transaction, no frame or timer handle held.
C10_DisableResets ==
    ~enabled => (~isWheeling /\ ~moved /\ moveStarts = 0 /\ LoopStopped /\ timers = {})

\* C11 (debounce timer): isWheeling is true exactly when a debounce timer is
\* pending, and at most one timer is pending: the one this._timeoutId names.
C11_WheelingIffTimer ==
    /\ isWheeling <=> timers # {}
    /\ Cardinality(timers) <= 1
    /\ timers \subseteq {timeoutId}

\* C11 witness: a later wheel event of a gesture (it reported another cursor
\* position than the first) rearmed the timer, and one timer is pending.
C11_Witness ==
    isWheeling /\ timers = {timeoutId} /\ ~Within1(CursorOffset, StartOffset)

\* C12 (accumulation): during a gesture, as long as no partial sum of its deltas
\* took the start zoom out of [minZoom, maxZoom], goalZoom is the view zoom
\* at gesture start plus 0.003 * smoothSensitivity * (d1 + ... + dn),
\* whatever frames ran between the events; and a tick that commits eases
\* from the view zoom toward that value of goalZoom.
C12_Accumulation ==
    /\ []((isWheeling /\ ~leftRange)
              => goalZoom = startZoom + 3 * smoothSensitivity * deltaSum)
    /\ [][(TickCommits /\ AnimationFrame)
              => mapZoom' = EaseZoom(mapZoom, goalZoom)]_vars

\* C12 witness: several wheel events of one gesture (a later one reported
\* another cursor position) arrived before any frame committed, their sum
\* is not zero and no partial sum left the range.
C12_Witness ==
    /\ isWheeling /\ ~leftRange /\ deltaSum # 0
    /\ ~moved /\ mapZoom = startZoom /\ CursorOffCenter
    /\ ~Within1(CursorOffset, StartOffset)

\* C13 (monotone gap): a tick that commits after the wheel input has
\* stopped, on a view nobody else changed, does not increase
\* |goalZoom - view zoom|.
C13_GapNeverIncreases ==
    [][(~isWheeling /\ TickCommits /\ AnimationFrame)
           => Abs(goalZoom' - mapZoom') <= Abs(goalZoom - mapZoom)]_vars

\* C14 (rescheduling): a tick leaves fewer frame callbacks pending than it
\* found only when it detects interference or when the zoom is within 0.005
\* of the goal with isWheeling false; every other tick, in particular every
\* tick during a gesture on a view unchanged since the last commit, leaves
\* as many as it found: it ran, and it requested exactly one, the one
\* this._zoomAnimationId names.
C14_StopsOnlyOnExit ==
    [][AnimationFrame =>
          \/ (mapZoom # prevZoom \/ mapCenter # prevCenter) /\ LoopCount' < LoopCount
          \/ (NearGoal /\ ~isWheeling) /\ LoopCount' < LoopCount
          \/ /\ mapZoom = prevZoom /\ mapCenter = prevCenter
             /\ ~(NearGoal /\ ~isWheeling)
             /\ LoopCount' = LoopCount
             /\ rafQueue'[Len(rafQueue')] = zoomAnimationId']_vars

\* C14 witness: during a gesture a tick committed and the loop goes on.
C14_Witness ==
    /\ isWheeling /\ moved /\ mapZoom # startZoom
    /\ mapZoom = prevZoom /\ mapCenter = prevCenter
    /\ LoopCount = 1 /\ rafQueue = <<zoomAnimationId>>

\* C15 (transaction balance): _moved is true exactly when a move
\* transaction the handler opened is open on the view, the handler never
\* has two open at once, and once the loop has stopped by convergence (the
\* gesture is over, the zoom within 0.005 of the goal on a view nobody else
\* changed) none is open.
C15_TransactionBalance ==
    /\ moved <=> moveStarts > 0
    /\ moveStarts <= 1
    /\ (LoopStopped /\ ~isWheeling /\ NearGoal /\ View = lastCommit) => moveStarts = 0

\* C16 (end of gesture): the firing of the debounce timer sets isWheeling to
\* false and changes nothing else of the handler, of the view or of the
\* pending frame callbacks.
C16_WheelEndOnlyClearsWheeling ==
    [][(timers # {} /\ WheelEnd) =>
          /\ isWheeling' = FALSE
          /\ UNCHANGED <<goalZoom, wheelMousePosition, centerPoint, startLatLng,
                         wheelStartLatLng, startZoom, moved, prevCenter, prevZoom,
                         zoomAnimationId, rafQueue, rafBatch, mapZoom, mapCenter,
                         moveStarts, enabled, smoothWheelZoom>>]_vars

\* C16 witness: the timer fired while the loop was running a gesture that
\* had committed and not yet reached its goal.
C16_Witness ==
    /\ ~isWheeling /\ timers = {} /\ moved /\ ~LoopStopped
    /\ goalZoom # mapZoom /\ mapZoom = prevZoom /\ mapCenter = prevCenter

\* C17 (own commits are no interference): with no other agent changing the
\* view, no tick finds the view different from the snapshots prevZoom and
\* prevCenter: none takes the interference exit, whatever the interleaving
\* of wheel events, timer firings and frames.
C17_NoSelfInterference ==
    [][~((mapZoom # prevZoom \/ mapCenter # prevCenter) /\ AnimationFrame)]_vars

\* C17 witness: the loops of two gestures run side by side, a tick of the
\* second gesture has committed a new zoom and the snapshots are the view.
C17_Witness ==
    /\ LoopCount = 2 /\ gestures = 2 /\ moved /\ mapZoom # startZoom
    /\ mapZoom = prevZoom /\ mapCenter = prevCenter

C19_EaseBetweenZoomAndGoal ==
    [][(TickCommits /\ AnimationFrame)
           => (Min(mapZoom, goalZoom) <= mapZoom' /\ mapZoom' <= Max(mapZoom, goalZoom))]_vars

====
